---- MODULE Spec2Model ----
(***************************************************************************)
(* The scroll-driven scene of src/src/components/ThreeScene.tsx.           *)
(*                                                                         *)
(* Numbers are fixed point, in thousandths: 1800 is 1.8, 6283 is 2*PI.     *)
(* The tween engine writes every interpolated value rounded to a fixed     *)
(* number of decimals with Math.round; the model keeps three decimals and  *)
(* rounds the same way (half up).                                          *)
(*                                                                         *)
(* One browser animation frame is one step, Frame: it runs the animate     *)
(* callback of the mounted component instance (updateFromScroll, which     *)
(* starts the frame's tweens) and then the tween engine's tick, which      *)
(* renders every live tween in creation order.  The state is that of the   *)
(* component instance mounted last; a remount makes a new instance, whose  *)
(* refs start from their initial values, while the requestAnimationFrame   *)
(* chains of earlier instances are only counted.                           *)
(***************************************************************************)
EXTENDS Integers, Sequences, FiniteSets, TLC

VARIABLES
    scrollY,        \* window.scrollY
    innerHeight,    \* window.innerHeight
    events,         \* scroll and resize events so far
    mounts,         \* mounts of ThreeScene so far
    rafChains,      \* live requestAnimationFrame chains started by animate
    mounted,        \* the effect of the last instance has not been cleaned up
    rendererHeight, \* the height last given to renderer.setSize
    loadState,      \* "pending", "loaded" or "failed": loader.load's outcome
    modelRef,       \* modelRef.current: NoModel or the loaded model
    sceneHasModel,  \* the model has been added to the scene
    cameraZ,        \* cameraRef.current.position.z
    targetValues,   \* targetValues.current
    tweens,         \* the live tweens, oldest first, one record per frame
    setHSLCalls,    \* the hues passed to setHSL during the last frame
    scrollProgress, \* the scrollProgress updateFromScroll computed last
    saveCount,      \* how often the initial rotation has been saved (capped)
    atLoad,         \* the transform values when onLoad returned
    scrolled,       \* a scroll or resize event came after the load
    framesPerTween  \* animation frames in one tween of 0.8 s (the display's rate)

vars == <<scrollY, innerHeight, events, mounts, rafChains, mounted,
          rendererHeight, loadState, modelRef, sceneHasModel, cameraZ,
          targetValues, tweens, setHSLCalls, scrollProgress, saveCount,
          atLoad, scrolled, framesPerTween>>

(***************************************************************************)
(* Bounds of the model.                                                    *)
(***************************************************************************)
\* Frames in one tween of 0.8 s, for the display of Spec and for the faster
\* display of SmoothSpec (10 frames are a rate of 12.5 per second).
FramesPerTween == 3
SmoothFramesPerTween == 10
\* Scroll and resize events in one behaviour.
MaxEvents == 1
\* Mounts of the component in one behaviour.
MaxMounts == 2
\* How far an elastic overscroll takes scrollY beyond the scroll range.
Overscroll == 1
\* saveCount stops counting here.
MaxSaves == 2

(***************************************************************************)
(* Program constants, in thousandths.                                      *)
(***************************************************************************)
CameraStartZ == 1800
InitialTargetCameraZ == 5000
ModelScale == 5000
minZ == 2000
maxZ == 6000
PI == 3142
PositionXAmplitude == 800
PositionYAmplitude == 600
HueFactor == 800
ScaleAmplitude == 1500
One == 1000

\* Window heights tried; the page is three viewports tall.
InnerHeights == {0, 2}
ScrollHeight == 3 * innerHeight

\* Math.random() * Math.PI * 2 for rotation.x, .y, .z: 0 is a possible value.
RandomRotations == { <<0, 785, 3142>>, <<1571, 2356, 0>> }
\* (Math.random() - 0.5) * 4, * 4, * 2 for position.x, .y, .z.
RandomPositions == { <<-1500, 1200, 400>>, <<0, 600, -300>> }

NoModel == [null |-> TRUE]

\* Math.round(a / b) for b > 0: to the nearest, halves up.
RoundDiv(a, b) == (2 * a + b) \div (2 * b)

Abs(a) == IF a < 0 THEN -a ELSE a

(***************************************************************************)
(* The scroll-to-transform mapping of updateFromScroll.                    *)
(***************************************************************************)
\* scrollProgress, in thousandths: maxScroll > 0 ? scrollY / maxScroll : 0.
ScrollProgress(y, sh, ih) ==
    LET maxScroll == sh - ih
    IN  IF maxScroll > 0 THEN RoundDiv(y * One, maxScroll) ELSE 0

\* 1000 * sin(k * 3 * PI / 8) and 1000 * cos(k * PI / 2): Math.sin and Math.cos
\* at the quarter steps of the scroll progress.
SinTable == <<0, 924, 707, -383, -1000, -383, 707, 924,
              0, -924, -707, 383, 1000, 383, -707, -924>>
CosTable == <<1000, 0, -1000, 0>>
\* Math.sin(scrollProgress * Math.PI * 1.5), Math.cos(scrollProgress * Math.PI * 2).
Sin15(p) == SinTable[((p \div 250) % 16) + 1]
Cos2(p) == CosTable[((p \div 250) % 4) + 1]

\* JavaScript's !userData.initialRotationX: undefined and 0 are both falsy.
InitialRotationMissing(ud) == ~ud.set \/ ud.initialRotationX = 0

\* The block that saves the initial rotation and the initial camera z.
SaveInitial(m, cz) ==
    [set |-> TRUE,
     initialRotationX |-> m.rotation[1],
     initialRotationY |-> m.rotation[2],
     initialRotationZ |-> m.rotation[3],
     initialCameraZ |-> cz]

\* The target values computed from the saved rotation and the scroll progress.
ComputeTargets(ud, p) ==
    [rotationX |-> ud.initialRotationX + RoundDiv(p * PI * 2, One),
     rotationY |-> ud.initialRotationY + RoundDiv(p * PI * 3, 2 * One),
     rotationZ |-> ud.initialRotationZ + RoundDiv(p * PI, One),
     cameraZ |-> minZ + RoundDiv(p * (maxZ - minZ), One),
     positionX |-> RoundDiv(Sin15(p) * PositionXAmplitude, One),
     positionY |-> RoundDiv(Cos2(p) * PositionYAmplitude, One),
     hue |-> RoundDiv(p * HueFactor, One),
     scale |-> ModelScale + RoundDiv(Sin15(p) * ScaleAmplitude, One)]

(***************************************************************************)
(* The tween engine, as the calls of gsap.to use it.  A tween reads the    *)
(* start value of each property when it renders first, and from then on    *)
(* writes start + (end - start) * ease(elapsed / duration) at every tick   *)
(* until it completes.  gsap.to overwrites nothing, so the tweens of       *)
(* earlier frames stay alive and the tick renders them all, oldest first.  *)
(***************************************************************************)
EaseDen == framesPerTween * framesPerTween * framesPerTween
\* "power2.out": 1 - (1 - t)^3 at t = age / framesPerTween, times EaseDen.
EaseNum(age) ==
    LET r == framesPerTween - age IN EaseDen - r * r * r

\* TweenValue with the interpolated change cut off towards the start value
\* (Math.trunc in place of Math.round).
TweenValueTruncated(from, to, age) ==
    IF age >= framesPerTween THEN to
    ELSE IF to >= from
         THEN from + ((to - from) * EaseNum(age)) \div EaseDen
         ELSE from - ((from - to) * EaseNum(age)) \div EaseDen

\* The value a tween writes for one property at the given age.
TweenValue(from, to, age) ==
    IF age >= framesPerTween THEN to
    ELSE from + RoundDiv((to - from) * EaseNum(age), EaseDen)

\* The five tweens one call of updateFromScroll starts, as one record: the
\* four on the model and the camera, and the one on the fresh object
\* { hue: targetValues.current.hue }.
NewTweens(tv) ==
    [age |-> 0, initted |-> FALSE, to |-> tv,
     from |-> [rotation |-> <<0, 0, 0>>, cameraZ |-> 0,
               position |-> <<0, 0>>, scale |-> 0],
     hueObject |-> tv.hue]

\* The start values a tween reads from its targets at its first render.
ReadStart(t, o) ==
    IF t.initted THEN t
    ELSE [t EXCEPT !.initted = TRUE,
                   !.from = [rotation |-> o.rotation, cameraZ |-> o.cameraZ,
                             position |-> <<o.position[1], o.position[2]>>,
                             scale |-> o.scale]]

\* What a tween that has read its start values writes at its next render;
\* the hue tween's onUpdate passes the hue of its own target object to setHSL.
Render(t, o) ==
    LET h == TweenValue(t.hueObject, t.to.hue, t.age)
    IN  [tween |-> [t EXCEPT !.hueObject = h],
         objects |->
            [rotation |-> <<TweenValue(t.from.rotation[1], t.to.rotationX, t.age),
                            TweenValue(t.from.rotation[2], t.to.rotationY, t.age),
                            TweenValue(t.from.rotation[3], t.to.rotationZ, t.age)>>,
             cameraZ |-> TweenValue(t.from.cameraZ, t.to.cameraZ, t.age),
             position |-> <<TweenValue(t.from.position[1], t.to.positionX, t.age),
                            TweenValue(t.from.position[2], t.to.positionY, t.age),
                            o.position[3]>>,
             scale |-> TweenValue(t.from.scale, t.to.scale, t.age),
             hue |-> [hsl |-> TRUE, h |-> h],
             calls |-> o.calls \cup {h}]]

\* One render of one frame's tweens on the objects o.  (Here and below,
\* CHOOSE over a one-element set names a value that is computed once.)
RenderTween(t0, o) ==
    CHOOSE result \in
        { Render(t, o) :
            t \in {[ReadStart(t0, o) EXCEPT !.age = t0.age + 1]} } : TRUE

\* The tick: every live tween renders in creation order; a completed tween
\* is removed.
RECURSIVE Tick(_, _, _)
Tick(ts, kept, o) ==
    IF ts = <<>> THEN [tweens |-> kept, objects |-> o]
    ELSE CHOOSE result \in
            { Tick(r.rest,
                   IF r.tween.age >= framesPerTween THEN kept
                   ELSE Append(kept, r.tween),
                   r.objects) :
                r \in {[rest |-> Tail(ts)] @@ RenderTween(Head(ts), o)} } : TRUE

\* The objects the tweens of this instance write to.
Objects(m, cz) ==
    [rotation |-> m.rotation, cameraZ |-> cz, position |-> m.position,
     scale |-> m.scale, hue |-> m.hue, calls |-> {}]

(***************************************************************************)
(* The component.                                                          *)
(***************************************************************************)
\* The initial value of the targetValues ref.
InitialTargetValues ==
    [rotationX |-> 0, rotationY |-> 0, rotationZ |-> 0,
     cameraZ |-> InitialTargetCameraZ, positionX |-> 0, positionY |-> 0,
     scale |-> One, hue |-> 0]

NoSnapshot == [rotation |-> <<0, 0, 0>>, position |-> <<0, 0, 0>>,
               scale |-> 0, cameraZ |-> 0]

\* What the effect sets up for a new instance: the refs at their initial
\* values, the camera at its start position, the load under way.
FreshInstance ==
    /\ mounted' = TRUE
    /\ rendererHeight' = innerHeight
    /\ loadState' = "pending"
    /\ modelRef' = NoModel
    /\ sceneHasModel' = FALSE
    /\ cameraZ' = CameraStartZ
    /\ targetValues' = InitialTargetValues
    /\ tweens' = <<>>
    /\ setHSLCalls' = {}
    /\ scrollProgress' = 0
    /\ saveCount' = 0
    /\ atLoad' = NoSnapshot
    /\ scrolled' = FALSE

\* The page after the first mount: the effect has run and has called
\* animate() once.
InitAt(frames) ==
    /\ framesPerTween = frames
    /\ scrollY = 0
    /\ innerHeight = 2
    /\ events = 0
    /\ mounts = 1
    /\ rafChains = 1
    /\ mounted = TRUE
    /\ rendererHeight = 2
    /\ loadState = "pending"
    /\ modelRef = NoModel
    /\ sceneHasModel = FALSE
    /\ cameraZ = CameraStartZ
    /\ targetValues = InitialTargetValues
    /\ tweens = <<>>
    /\ setHSLCalls = {}
    /\ scrollProgress = 0
    /\ saveCount = 0
    /\ atLoad = NoSnapshot
    /\ scrolled = FALSE

Init == InitAt(FramesPerTween)

\* The cleanup of the effect: the resize listener and the canvas are removed
\* and the renderer disposed.  The loop and the load are not cancelled.
Unmount ==
    /\ mounted
    /\ mounted' = FALSE
    /\ UNCHANGED <<framesPerTween, scrollY, innerHeight, events, mounts, rafChains,
                   rendererHeight, loadState, modelRef, sceneHasModel, cameraZ,
                   targetValues, tweens, setHSLCalls, scrollProgress,
                   saveCount, atLoad, scrolled>>

\* The effect of a new instance; its animate() starts one more chain.
Mount ==
    /\ ~mounted
    /\ mounts < MaxMounts
    /\ mounts' = mounts + 1
    /\ rafChains' = rafChains + 1
    /\ FreshInstance
    /\ UNCHANGED <<framesPerTween, scrollY, innerHeight, events>>

\* loader.load's onLoad.
onLoad(rot, pos) ==
    /\ loadState = "pending"
    /\ loadState' = "loaded"
    /\ modelRef' = [rotation |-> rot, position |-> pos, scale |-> ModelScale,
                    hue |-> [hsl |-> FALSE, h |-> 0],
                    userData |-> [set |-> FALSE, initialRotationX |-> 0,
                                  initialRotationY |-> 0, initialRotationZ |-> 0,
                                  initialCameraZ |-> 0]]
    /\ sceneHasModel' = TRUE
    /\ atLoad' = [rotation |-> rot, position |-> pos, scale |-> ModelScale,
                  cameraZ |-> cameraZ]
    /\ scrolled' = FALSE
    /\ UNCHANGED <<framesPerTween, scrollY, innerHeight, events, mounts, rafChains, mounted,
                   rendererHeight, cameraZ, targetValues, tweens, setHSLCalls,
                   scrollProgress, saveCount>>

\* onError as it would be with a fallback object shown in place of the model.
onErrorFallback ==
    /\ loadState = "pending"
    /\ loadState' = "failed"
    /\ modelRef' = [rotation |-> <<0, 0, 0>>, position |-> <<0, 0, 0>>,
                    scale |-> One, hue |-> [hsl |-> FALSE, h |-> 0],
                    userData |-> [set |-> FALSE, initialRotationX |-> 0,
                                  initialRotationY |-> 0, initialRotationZ |-> 0,
                                  initialCameraZ |-> 0]]
    /\ sceneHasModel' = TRUE
    /\ UNCHANGED <<framesPerTween, scrollY, innerHeight, events, mounts,
                   rafChains, mounted, rendererHeight, cameraZ, targetValues,
                   tweens, setHSLCalls, scrollProgress, saveCount, atLoad,
                   scrolled>>

\* loader.load's onError: console.error only.
onError ==
    /\ loadState = "pending"
    /\ loadState' = "failed"
    /\ UNCHANGED <<framesPerTween, scrollY, innerHeight, events, mounts, rafChains, mounted,
                   rendererHeight, modelRef, sceneHasModel, cameraZ,
                   targetValues, tweens, setHSLCalls, scrollProgress,
                   saveCount, atLoad, scrolled>>

\* The user scrolls: the browser changes window.scrollY; an elastic
\* overscroll takes it below 0 and beyond the end of the scroll range.
Scroll(y) ==
    /\ events < MaxEvents
    /\ y /= scrollY
    /\ y \in (0 - Overscroll) .. (ScrollHeight - innerHeight + Overscroll)
    /\ scrollY' = y
    /\ events' = events + 1
    /\ scrolled' = (loadState = "loaded")
    /\ UNCHANGED <<framesPerTween, innerHeight, mounts, rafChains, mounted, rendererHeight,
                   loadState, modelRef, sceneHasModel, cameraZ, targetValues,
                   tweens, setHSLCalls, scrollProgress, saveCount, atLoad>>

\* The window is resized; handleResize runs while its listener is installed.
\* The browser keeps scrollY within the new scroll range.
Resize(h) ==
    /\ events < MaxEvents
    /\ h /= innerHeight
    /\ innerHeight' = h
    /\ scrollY' = IF 3 * h - h < scrollY THEN 3 * h - h ELSE scrollY
    /\ events' = events + 1
    /\ rendererHeight' = IF mounted THEN h ELSE rendererHeight
    /\ scrolled' = (loadState = "loaded")
    /\ UNCHANGED <<framesPerTween, mounts, rafChains, mounted, loadState, modelRef,
                   sceneHasModel, cameraZ, targetValues, tweens, setHSLCalls,
                   scrollProgress, saveCount, atLoad>>

\* The guard of updateFromScroll; cameraRef.current is set by the effect.
ModelReady == modelRef /= NoModel

\* One animation frame: animate runs updateFromScroll and renders, and the
\* tween engine ticks.
Frame ==
    IF ModelReady
    THEN LET p == ScrollProgress(scrollY, ScrollHeight, innerHeight)
             saving == InitialRotationMissing(modelRef.userData)
             ud == IF saving THEN SaveInitial(modelRef, cameraZ)
                   ELSE modelRef.userData
         IN  \E tv \in {ComputeTargets(ud, p)} :
             \E r \in {Tick(Append(tweens, NewTweens(tv)), <<>>,
                             Objects(modelRef, cameraZ))} :
             /\ scrollProgress' = p
             /\ saveCount' = IF saving /\ saveCount < MaxSaves
                              THEN saveCount + 1 ELSE saveCount
             /\ targetValues' = tv
             /\ tweens' = r.tweens
             /\ modelRef' = [modelRef EXCEPT !.userData = ud,
                                             !.rotation = r.objects.rotation,
                                             !.position = r.objects.position,
                                             !.scale = r.objects.scale,
                                             !.hue = r.objects.hue]
             /\ cameraZ' = r.objects.cameraZ
             /\ setHSLCalls' = r.objects.calls
             /\ UNCHANGED <<framesPerTween, scrollY, innerHeight, events, mounts, rafChains,
                            mounted, rendererHeight, loadState, sceneHasModel,
                            atLoad, scrolled>>
    ELSE UNCHANGED vars

\* (onProgress only logs, and the colour picked for the materials at the
\* load is replaced by the first setHSL: neither is part of the state.)
Next ==
    \/ Frame
    \/ Unmount
    \/ Mount
    \/ \E rot \in RandomRotations, pos \in RandomPositions : onLoad(rot, pos)
    \/ onError
    \/ \E y \in (0 - Overscroll) .. (ScrollHeight - innerHeight + Overscroll) :
          Scroll(y)
    \/ \E h \in InnerHeights : Resize(h)

Spec == Init /\ [][Next]_vars

(***************************************************************************)
(* The smoothing on its own, at 10 frames per tween: one instance, its     *)
(* load, scrolling within the scroll range, and frames that keep coming    *)
(* (the animate callback requests the next frame before anything else).    *)
(* After the load the user scrolls at most once: from then on the scroll   *)
(* progress is constant.                                                   *)
(***************************************************************************)
SmoothInit == InitAt(SmoothFramesPerTween)

SmoothNext ==
    \/ Frame
    \/ \E rot \in RandomRotations, pos \in RandomPositions : onLoad(rot, pos)
    \/ \E y \in 0 .. (ScrollHeight - innerHeight) : ~scrolled /\ Scroll(y)

SmoothSpec == SmoothInit /\ [][SmoothNext]_vars /\ WF_vars(Frame)

(***************************************************************************)
(* The claims.                                                             *)
(***************************************************************************)

\* C1: whenever updateFromScroll computes the scroll progress, it lies in
\* [0, 1], whatever scrollY, the scroll height and the inner height are.
C1_ScrollProgressInRange == scrollProgress \in 0 .. One

\* C2: the target hue and every hue passed to setHSL lie in [0, 1].
C2_HueInRange ==
    /\ targetValues.hue \in 0 .. One
    /\ \A h \in setHSLCalls : h \in 0 .. One

\* The transform values equal the targets of the current scroll progress.
AtTargets ==
    /\ ModelReady
    /\ targetValues = ComputeTargets(modelRef.userData,
                         ScrollProgress(scrollY, ScrollHeight, innerHeight))
    /\ modelRef.rotation = <<targetValues.rotationX, targetValues.rotationY,
                             targetValues.rotationZ>>
    /\ modelRef.position[1] = targetValues.positionX
    /\ modelRef.position[2] = targetValues.positionY
    /\ modelRef.scale = targetValues.scale
    /\ cameraZ = targetValues.cameraZ

\* C3: once the model is loaded and the scroll progress no longer changes,
\* frames that keep running bring rotation, position, scale and camera z to
\* the target values of that scroll progress.
C3_SmoothingConverges == ModelReady ~> AtTargets

\* The largest distance from its end value at which the step of a tween's
\* second frame rounds to no change.
StallDistance ==
    CHOOSE c \in 0 .. EaseDen :
        /\ RoundDiv(c * EaseNum(2), EaseDen) = 0
        /\ RoundDiv((c + 1) * EaseNum(2), EaseDen) /= 0

Near(a, b) == Abs(a - b) <= StallDistance

\* The transform values are within the stall distance of the targets of
\* the current scroll progress.
NearTargets ==
    /\ ModelReady
    /\ targetValues = ComputeTargets(modelRef.userData,
                         ScrollProgress(scrollY, ScrollHeight, innerHeight))
    /\ Near(modelRef.rotation[1], targetValues.rotationX)
    /\ Near(modelRef.rotation[2], targetValues.rotationY)
    /\ Near(modelRef.rotation[3], targetValues.rotationZ)
    /\ Near(modelRef.position[1], targetValues.positionX)
    /\ Near(modelRef.position[2], targetValues.positionY)
    /\ Near(modelRef.scale, targetValues.scale)
    /\ Near(cameraZ, targetValues.cameraZ)

\* C3, amended: once the model is loaded and the scroll progress no longer
\* changes, frames that keep running bring rotation, position, scale and
\* camera z to within the stall distance of the target values of that
\* scroll progress, and they stay there.
C3_SmoothingComesToRest == <>[](ModelReady => NearTargets)

\* After a scroll, the values have come to rest near the targets but not on
\* them, with the tweens of the last frames all alive.
C3_Witness ==
    /\ NearTargets
    /\ ~AtTargets
    /\ scrolled
    /\ Len(tweens) = framesPerTween - 1
    /\ \A i \in 1 .. Len(tweens) : tweens[i].to = targetValues

\* C4: a change of the hue applied to the materials is a step towards the
\* new target hue through intermediate values, never a jump onto it.
C4_HueSmoothed ==
    [][(/\ ModelReady
        /\ modelRef' /= NoModel
        /\ modelRef.hue.hsl
        /\ modelRef'.hue.h /= modelRef.hue.h)
       => modelRef'.hue.h /= targetValues'.hue]_vars

\* C5: whatever the mounts and unmounts, at most one requestAnimationFrame
\* chain started by animate is alive.
C5_SingleRenderLoop == rafChains <= 1

\* C6: once the load has failed, modelRef is null, no model is in the scene,
\* and no step of the instance changes modelRef, the scene, targetValues,
\* the camera position or the tweens.
C6_FailedLoadOnlyLogged ==
    [][loadState = "failed" =>
        /\ modelRef = NoModel
        /\ ~sceneHasModel
        /\ loadState' = "failed" =>
              UNCHANGED <<modelRef, sceneHasModel, targetValues, cameraZ,
                          tweens>>]_vars

\* The load has failed and the page has been scrolled away from the top, so
\* that a frame that did not stop at the guard would compute new targets.
C6_Witness ==
    /\ loadState = "failed"
    /\ ScrollProgress(scrollY, ScrollHeight, innerHeight) > 0
    /\ mounted

\* C7: while no scroll has happened since the load, rotation, position,
\* scale and camera position are those of the load.
C7_StationaryUntilScroll ==
    (ModelReady /\ ~scrolled) =>
        /\ modelRef.rotation = atLoad.rotation
        /\ modelRef.position = atLoad.position
        /\ modelRef.scale = atLoad.scale
        /\ cameraZ = atLoad.cameraZ

\* C8: the initial rotation is saved once, in the first frame after the load,
\* for every initial rotation, so that the rotation targets are the rotation
\* of the load plus the offset of the scroll progress.
C8_InitialRotationSavedOnce ==
    /\ saveCount <= 1
    /\ (ModelReady /\ modelRef.userData.set) =>
          /\ modelRef.userData.initialRotationX = atLoad.rotation[1]
          /\ modelRef.userData.initialRotationY = atLoad.rotation[2]
          /\ modelRef.userData.initialRotationZ = atLoad.rotation[3]
          /\ targetValues.rotationX =
                atLoad.rotation[1] + RoundDiv(scrollProgress * PI * 2, One)
          /\ targetValues.rotationY =
                atLoad.rotation[2] + RoundDiv(scrollProgress * PI * 3, 2 * One)
          /\ targetValues.rotationZ =
                atLoad.rotation[3] + RoundDiv(scrollProgress * PI, One)

\* C9: the camera's z and the target cameraZ lie in [minZ, maxZ].
C9_CameraDistanceInRange ==
    /\ cameraZ \in minZ .. maxZ
    /\ targetValues.cameraZ \in minZ .. maxZ

====
